---- MODULE Spec2Model ----
(***************************************************************************)
(* SSML validation engine (src/src/validator.js) and the synthesis client  *)
(* that consumes its documents (polly-client.js, examples/synthesize.js).  *)
(*                                                                         *)
(* A document is a string (a sequence of characters).  The regular         *)
(* expressions of the validator are modelled by what they match on such a  *)
(* string; validate() is a process whose steps are the passes, the two     *)
(* tokenizer loops advancing one token per step.                           *)
(***************************************************************************)
EXTENDS Integers, Sequences, FiniteSets, TLC

\* ------------------------------------------------------------------------
\* Bounds of the model
\* ------------------------------------------------------------------------
MaxBody == 2

\* ------------------------------------------------------------------------
\* Characters and character classes
\* ------------------------------------------------------------------------
Lower == {"a","b","c","d","e","f","g","h","i","j","k","l","m",
          "n","o","p","q","r","s","t","u","v","w","x","y","z"}

Upper == {"A","B","C","D","E","F","G","H","I","J","K","L","M",
          "N","O","P","Q","R","S","T","U","V","W","X","Y","Z"}

Digits == {"0","1","2","3","4","5","6","7","8","9"}

\* [a-zA-Z:-] of the tag regular expressions
IsNameChar(c) == c \in Lower \cup Upper \cup {":", "-"}

\* [\w-] of the attribute regular expression
IsAttrChar(c) == c \in Lower \cup Upper \cup Digits \cup {"_", "-"}

\* white space removed by String.prototype.trim
IsSpace(c) == c \in {" ", "\t", "\n", "\r"}

\* ------------------------------------------------------------------------
\* String primitives (JavaScript String methods on 1-based positions)
\* ------------------------------------------------------------------------
MinOf(S) == CHOOSE m \in S : \A n \in S : m <= n

MaxOf(S) == CHOOSE m \in S : \A n \in S : m >= n

\* the character of s at position i
Ch(s, i) == IF 1 <= i /\ i <= Len(s) THEN SubSeq(s, i, i) ELSE ""

\* s.substring(i-1, j)
Sub(s, i, j) == IF i > j THEN "" ELSE SubSeq(s, i, j)

RECURSIVE Repeat(_, _)
Repeat(s, n) ==
  IF n = 0 THEN ""
  ELSE IF n % 2 = 0 THEN LET h == Repeat(s, n \div 2) IN h \o h
  ELSE s \o Repeat(s, n - 1)

\* p occurs in s at position i
OccursAt(s, p, i) == i >= 1 /\ i + Len(p) - 1 <= Len(s) /\ SubSeq(s, i, i + Len(p) - 1) = p

StartsWith(s, p) == OccursAt(s, p, 1)

EndsWith(s, p) == OccursAt(s, p, Len(s) - Len(p) + 1)

Includes(s, p) == \E i \in 1..Len(s) : OccursAt(s, p, i)

\* position of the first occurrence of p at or after i, 0 when there is none
IndexFrom(s, p, i) ==
  LET O == {j \in i..Len(s) : OccursAt(s, p, j)}
  IN  IF O = {} THEN 0 ELSE MinOf(O)

Trim(s) ==
  LET keep == {i \in 1..Len(s) : ~IsSpace(Ch(s, i))}
  IN  IF keep = {} THEN "" ELSE SubSeq(s, MinOf(keep), MaxOf(keep))

\* ------------------------------------------------------------------------
\* Regular expressions of the validator
\* ------------------------------------------------------------------------
NoMatch ==
  [found |-> FALSE, index |-> 0, last |-> 0, fullTag |-> "", tagName |-> "", attributes |-> ""]

\* where the name group starts for a match beginning at the '<' at i:
\* right after '<', or after '</' when the expression has the optional slash
NameStart(s, i, optSlash) ==
  IF IsNameChar(Ch(s, i + 1)) THEN i + 1
  ELSE IF optSlash /\ Ch(s, i + 1) = "/" /\ IsNameChar(Ch(s, i + 2)) THEN i + 2
  ELSE 0

\* last position of the greedy run [a-zA-Z:-]+ that starts at k
RECURSIVE NameEnd(_, _)
NameEnd(s, k) == IF IsNameChar(Ch(s, k + 1)) THEN NameEnd(s, k + 1) ELSE k

\* positions of '>' at or after position from
GTs(s, from) == {j \in from..Len(s) : Ch(s, j) = ">"}

\* tagRegex.exec(s) with the search starting at position lastIndex:
\*   optSlash = TRUE   /<\/?([a-zA-Z:-]+)[^>]*>/g
\*   optSlash = FALSE  /<([a-zA-Z:-]+)([^>]*)>/g
\* The match starts at the leftmost '<' that is followed by a name (after an
\* optional slash) and by some '>'; the name group is the greedy run of name
\* characters and [^>]* runs up to the first '>'.
TagExec(s, lastIndex, optSlash) ==
  LET G == GTs(s, lastIndex)
      C == {i \in lastIndex..Len(s) :
              /\ Ch(s, i) = "<"
              /\ NameStart(s, i, optSlash) # 0
              /\ \E g \in G : g > i}
  IN  IF C = {} THEN NoMatch
      ELSE LET i  == MinOf(C)
               e  == MinOf({g \in G : g > i})
               ns == NameStart(s, i, optSlash)
               ne == NameEnd(s, ns)
           IN  [found |-> TRUE, index |-> i, last |-> e,
                fullTag |-> SubSeq(s, i, e),
                tagName |-> SubSeq(s, ns, ne),
                attributes |-> Sub(s, ne + 1, e - 1)]

\* exec of a regex of the shape  prefix [^>]* '>'  (/<speak[^>]*>/g,
\* /<break[^>]*>/, /<[^>]*>/g), the search starting at position from
PrefixExec(s, prefix, from) ==
  LET G == GTs(s, from)
      C == {i \in from..Len(s) :
              OccursAt(s, prefix, i) /\ \E g \in G : g >= i + Len(prefix)}
  IN  IF C = {} THEN NoMatch
      ELSE LET i == MinOf(C)
               e == MinOf({g \in G : g >= i + Len(prefix)})
           IN  [found |-> TRUE, index |-> i, last |-> e,
                fullTag |-> SubSeq(s, i, e), tagName |-> "", attributes |-> ""]

\* (s.match(/prefix[^>]*>/g) || []).length, counted from position from
RECURSIVE CountPrefix(_, _, _)
CountPrefix(s, prefix, from) ==
  LET m == PrefixExec(s, prefix, from)
  IN  IF ~m.found THEN 0 ELSE 1 + CountPrefix(s, prefix, m.last + 1)

\* (s.match(/literal/g) || []).length, counted from position from
RECURSIVE CountLiteral(_, _, _)
CountLiteral(s, lit, from) ==
  LET i == IndexFrom(s, lit, from)
  IN  IF i = 0 THEN 0 ELSE 1 + CountLiteral(s, lit, i + Len(lit))

\* s.replace(/<[^>]*>/g, ''), from position from on
RECURSIVE StripTags(_, _)
StripTags(s, from) ==
  LET m == PrefixExec(s, "<", from)
  IN  IF ~m.found THEN Sub(s, from, Len(s))
      ELSE Sub(s, from, m.index - 1) \o StripTags(s, m.last + 1)

\* s.split(/<break[^>]*>/), from position from on
RECURSIVE SplitBreak(_, _)
SplitBreak(s, from) ==
  LET m == PrefixExec(s, "<break", from)
  IN  IF ~m.found THEN << Sub(s, from, Len(s)) >>
      ELSE << Sub(s, from, m.index - 1) >> \o SplitBreak(s, m.last + 1)

\* /([\w-]+)="([^"]*)"/g .exec(attributes), the search starting at from
NoAttr == [found |-> FALSE, last |-> 0, attrName |-> "", attrValue |-> ""]

\* last position of the greedy run [\w-]+ that starts at k
RECURSIVE AttrNameEnd(_, _)
AttrNameEnd(s, k) == IF IsAttrChar(Ch(s, k + 1)) THEN AttrNameEnd(s, k + 1) ELSE k

AttrExec(s, from) ==
  LET Q == "\""
      C == {i \in from..Len(s) :
              /\ IsAttrChar(Ch(s, i))
              /\ OccursAt(s, "=" \o Q, AttrNameEnd(s, i) + 1)
              /\ IndexFrom(s, Q, AttrNameEnd(s, i) + 3) # 0}
  IN  IF C = {} THEN NoAttr
      ELSE LET i  == MinOf(C)
               ne == AttrNameEnd(s, i)
               q  == IndexFrom(s, Q, ne + 3)
           IN  [found |-> TRUE, last |-> q,
                attrName |-> SubSeq(s, i, ne),
                attrValue |-> Sub(s, ne + 3, q - 1)]

\* the (name, value) pairs the attribute loop visits, in order
RECURSIVE AttrPairs(_, _)
AttrPairs(s, from) ==
  LET m == AttrExec(s, from)
  IN  IF ~m.found THEN << >> ELSE << m >> \o AttrPairs(s, m.last + 1)

AllDigits(s) == Len(s) >= 1 /\ \A i \in 1..Len(s) : Ch(s, i) \in Digits

\* \d+(\.\d+)?
IsNumber(s) ==
  \/ AllDigits(s)
  \/ \E k \in 1..Len(s) :
       Ch(s, k) = "." /\ AllDigits(Sub(s, 1, k - 1)) /\ AllDigits(Sub(s, k + 1, Len(s)))

\* ^[\+\-]\d+(\.\d+)?suffix$  when signed, ^\d+(\.\d+)?suffix$ otherwise
NumberWith(v, signed, suffix) ==
  /\ EndsWith(v, suffix)
  /\ LET core == Sub(v, 1, Len(v) - Len(suffix))
     IN  IF signed
         THEN Ch(core, 1) \in {"+", "-"} /\ IsNumber(Sub(core, 2, Len(core)))
         ELSE IsNumber(core)

\* RegExp.prototype.test for the patterns of validAttributeValues
RegexTest(re, v) ==
  CASE re = "time"          -> NumberWith(v, FALSE, "ms") \/ NumberWith(v, FALSE, "s")
    [] re = "percent"       -> NumberWith(v, FALSE, "%")
    [] re = "signedPercent" -> NumberWith(v, TRUE, "%")
    [] re = "signedHz"      -> NumberWith(v, TRUE, "Hz")
    [] re = "signedDb"      -> NumberWith(v, TRUE, "dB")

\* ------------------------------------------------------------------------
\* Schema tables (SSMLValidator.constructor)
\* ------------------------------------------------------------------------
supportedTags ==
  {"speak", "break", "emphasis", "lang", "mark", "p", "s", "phoneme",
   "prosody", "say-as", "sub", "voice", "audio", "lexicon",
   "amazon:breath", "amazon:auto-breaths", "amazon:effect"}

requiredAttributes ==
  ("phoneme" :> <<"alphabet", "ph">>) @@ ("say-as" :> <<"interpret-as">>) @@
  ("sub" :> <<"alias">>) @@ ("voice" :> <<"name">>) @@
  ("audio" :> <<"src">>) @@ ("lexicon" :> <<"name">>)

Lit(v) == [regexp |-> FALSE, v |-> v]

Re(name) == [regexp |-> TRUE, v |-> name]

Lits(vs) == [i \in 1..Len(vs) |-> Lit(vs[i])]

\* a constraint: an array of alternatives, or a bare regular expression
Arr(alts) == [kind |-> "array", alts |-> alts]

Bare(name) == [kind |-> "regexp", alts |-> << Re(name) >>]

validAttributeValues ==
  ("break" :>
     (("strength" :> Arr(Lits(<<"none", "x-weak", "weak", "medium", "strong", "x-strong">>))) @@
      ("time" :> Bare("time")))) @@
  ("emphasis" :>
     ("level" :> Arr(Lits(<<"strong", "moderate", "reduced">>)))) @@
  ("prosody" :>
     (("rate" :> Arr(Lits(<<"x-slow", "slow", "medium", "fast", "x-fast">>)
                     \o << Re("percent"), Re("signedPercent") >>)) @@
      ("pitch" :> Arr(Lits(<<"x-low", "low", "medium", "high", "x-high">>)
                      \o << Re("signedHz"), Re("signedPercent") >>)) @@
      ("volume" :> Arr(Lits(<<"silent", "x-soft", "soft", "medium", "loud", "x-loud">>)
                       \o << Re("signedDb") >>)))) @@
  ("say-as" :>
     ("interpret-as" :> Arr(Lits(<<"characters", "spell-out", "cardinal", "number",
                                   "ordinal", "digits", "fraction", "unit", "date", "time",
                                   "telephone", "address", "interjection", "expletive">>)))) @@
  ("phoneme" :>
     ("alphabet" :> Arr(Lits(<<"ipa", "x-sampa">>)))) @@
  ("amazon:breath" :>
     ("duration" :> Arr(Lits(<<"default", "x-short", "short", "medium", "long", "x-long">>)))) @@
  ("amazon:auto-breaths" :>
     (("volume" :> Arr(Lits(<<"default", "x-soft", "soft", "medium", "loud", "x-loud">>))) @@
      ("frequency" :> Arr(Lits(<<"default", "x-low", "low", "medium", "high", "x-high">>))) @@
      ("duration" :> Arr(Lits(<<"default", "x-short", "short", "medium", "long", "x-long">>))))) @@
  ("amazon:effect" :>
     ("name" :> Arr(Lits(<<"whispered">>))))

\* ------------------------------------------------------------------------
\* The tables of a validator
\* ------------------------------------------------------------------------
VARIABLE
  schema      \* the tables held by the validator (this.supportedTags, ...)

\* the tables the constructor builds
DefaultSchema ==
  [supportedTags |-> supportedTags,
   requiredAttributes |-> requiredAttributes,
   validAttributeValues |-> validAttributeValues]

\* property names every plain object inherits from Object.prototype: a lookup
\* table[tag][attrName] with such a name yields a value that is neither an
\* array nor a regular expression
ObjectPrototypeKeys ==
  {"constructor", "toString", "toLocaleString", "valueOf", "hasOwnProperty",
   "isPrototypeOf", "propertyIsEnumerable", "__proto__", "__defineGetter__",
   "__defineSetter__", "__lookupGetter__", "__lookupSetter__"}

Inherited == [kind |-> "inherited", alts |-> << >>]

Undefined == [kind |-> "undefined", alts |-> << >>]

\* this.validAttributeValues[tagName][attrName]
LookupConstraint(tagName, attrName) ==
  IF attrName \in DOMAIN schema.validAttributeValues[tagName]
  THEN schema.validAttributeValues[tagName][attrName]
  ELSE IF attrName \in ObjectPrototypeKeys THEN Inherited ELSE Undefined

\* ------------------------------------------------------------------------
\* The passes of validate(), as functions of the document
\* ------------------------------------------------------------------------
ErrMissingOpen == "SSML must start with <speak> tag"

ErrMissingClose == "SSML must end with </speak> tag"

ErrUnbalanced == "Unbalanced <speak> tags"

ErrMultiple == "Multiple <speak> tags found - only one is allowed"

WarnLong == "Long text segment without breaks - consider adding pauses for better speech flow"

WarnDeep == "Deep tag nesting detected - consider simplifying structure"

WarnEmpty == "Empty tags detected - consider removing or adding content"

\* threshold of the long-segment heuristic
LongSegmentLimit == 500

\* threshold of the nesting heuristic
NestingLimit == 5

\* a one-element list when the condition holds, the empty list otherwise
When(cond, msg) == IF cond THEN << msg >> ELSE << >>

RECURSIVE Flatten(_)
Flatten(lists) == IF lists = << >> THEN << >> ELSE Head(lists) \o Flatten(Tail(lists))

\* _validateBasicStructure: the errors it pushes, in order
speakOpenCount(ssml) == CountPrefix(ssml, "<speak", 1)

speakCloseCount(ssml) == CountLiteral(ssml, "</speak>", 1)

BasicStructureErrors(ssml) ==
  LET trimmed == Trim(ssml)
  IN  When(~StartsWith(trimmed, "<speak"), ErrMissingOpen)
      \o When(~EndsWith(trimmed, "</speak>"), ErrMissingClose)
      \o When(speakOpenCount(ssml) # speakCloseCount(ssml), ErrUnbalanced)
      \o When(speakOpenCount(ssml) > 1, ErrMultiple)

\* classification of a token in _validateXMLStructure
IsSelfClosing(fullTag) == Includes(fullTag, "/>") /\ ~StartsWith(fullTag, "</")

IsClosing(fullTag) == ~IsSelfClosing(fullTag) /\ StartsWith(fullTag, "</")

IsOpening(fullTag) == ~IsSelfClosing(fullTag) /\ ~StartsWith(fullTag, "</")

ErrUnexpected(fullTag) == "Unexpected closing tag: " \o fullTag

ErrMismatched(lastTag, fullTag) ==
  "Mismatched tags: expected </" \o lastTag \o ">, found " \o fullTag

\* a join that lists the innermost open tag first
RECURSIVE JoinTags_InnermostFirst(_)
JoinTags_InnermostFirst(stack) ==
  IF stack = << >> THEN ""
  ELSE IF Len(stack) = 1 THEN "<" \o stack[1] \o ">"
  ELSE "<" \o stack[Len(stack)] \o ">, "
         \o JoinTags_InnermostFirst(SubSeq(stack, 1, Len(stack) - 1))

\* stack.map(tag => `<${tag}>`).join(', ')
RECURSIVE JoinTags(_)
JoinTags(stack) ==
  IF stack = << >> THEN ""
  ELSE IF Len(stack) = 1 THEN "<" \o stack[1] \o ">"
  ELSE "<" \o stack[1] \o ">, " \o JoinTags(Tail(stack))

ErrUnclosed(stack) == "Unclosed tags: " \o JoinTags(stack)

\* a loop body without the empty-stack test: pop() of an empty array yields
\* undefined, which differs from every tag name
XMLToken_NoEmptyCheck(stack, m) ==
  IF IsSelfClosing(m.fullTag) THEN [stack |-> stack, errors |-> << >>]
  ELSE IF StartsWith(m.fullTag, "</")
  THEN IF Len(stack) = 0
       THEN [stack |-> stack, errors |-> << ErrMismatched("undefined", m.fullTag) >>]
       ELSE LET lastTag == stack[Len(stack)]
            IN  [stack |-> SubSeq(stack, 1, Len(stack) - 1),
                 errors |-> When(lastTag # m.tagName, ErrMismatched(lastTag, m.fullTag))]
  ELSE [stack |-> Append(stack, m.tagName), errors |-> << >>]

\* a loop body that keeps the top frame when the closing name does not match
XMLToken_KeepOnMismatch(stack, m) ==
  IF IsSelfClosing(m.fullTag) THEN [stack |-> stack, errors |-> << >>]
  ELSE IF StartsWith(m.fullTag, "</")
  THEN IF Len(stack) = 0
       THEN [stack |-> stack, errors |-> << ErrUnexpected(m.fullTag) >>]
       ELSE LET lastTag == stack[Len(stack)]
            IN  IF lastTag # m.tagName
                THEN [stack |-> stack, errors |-> << ErrMismatched(lastTag, m.fullTag) >>]
                ELSE [stack |-> SubSeq(stack, 1, Len(stack) - 1), errors |-> << >>]
  ELSE [stack |-> Append(stack, m.tagName), errors |-> << >>]

\* one iteration of the loop of _validateXMLStructure on the match m:
\* the stack afterwards and the errors pushed

\* a loop body that looks at the supported tags: a token of a tag the schema
\* does not hold is skipped
XMLToken_SupportedOnly(stack, m) ==
  IF m.tagName \notin schema.supportedTags THEN [stack |-> stack, errors |-> << >>]
  ELSE IF IsSelfClosing(m.fullTag) THEN [stack |-> stack, errors |-> << >>]
  ELSE IF StartsWith(m.fullTag, "</")
  THEN IF Len(stack) = 0
       THEN [stack |-> stack, errors |-> << ErrUnexpected(m.fullTag) >>]
       ELSE LET lastTag == stack[Len(stack)]
            IN  [stack |-> SubSeq(stack, 1, Len(stack) - 1),
                 errors |-> When(lastTag # m.tagName, ErrMismatched(lastTag, m.fullTag))]
  ELSE [stack |-> Append(stack, m.tagName), errors |-> << >>]

XMLToken(stack, m) ==
  IF IsSelfClosing(m.fullTag) THEN [stack |-> stack, errors |-> << >>]
  ELSE IF StartsWith(m.fullTag, "</")
  THEN IF Len(stack) = 0
       THEN [stack |-> stack, errors |-> << ErrUnexpected(m.fullTag) >>]
       ELSE LET lastTag == stack[Len(stack)]
            IN  [stack |-> SubSeq(stack, 1, Len(stack) - 1),
                 errors |-> When(lastTag # m.tagName, ErrMismatched(lastTag, m.fullTag))]
  ELSE [stack |-> Append(stack, m.tagName), errors |-> << >>]

\* a final check that lets one tag stay open
XMLEndErrors_MoreThanOne(stack) == When(Len(stack) > 1, ErrUnclosed(stack))

\* the check after the loop of _validateXMLStructure
XMLEndErrors(stack) == When(Len(stack) > 0, ErrUnclosed(stack))

WarnUnsupported(tagName) == "Unsupported tag: <" \o tagName \o ">"

ErrMissingAttr(requiredAttr, tagName) ==
  "Missing required attribute '" \o requiredAttr \o "' for tag <" \o tagName \o ">"

ErrInvalidValue(attrValue, attrName, tagName) ==
  "Invalid value '" \o attrValue \o "' for attribute '" \o attrName
     \o "' in tag <" \o tagName \o ">"

\* a required-attribute block that also checks self-closing instances
RequiredAttrErrors_SelfClosingToo(tagName, fullTag, attributes) ==
  IF tagName \in DOMAIN schema.requiredAttributes
  THEN LET pairs == AttrPairs(attributes, 1)
           foundAttrs == {pairs[k].attrName : k \in 1..Len(pairs)}
           req == schema.requiredAttributes[tagName]
       IN  Flatten([k \in 1..Len(req) |->
                      When(req[k] \notin foundAttrs, ErrMissingAttr(req[k], tagName))])
  ELSE << >>

\* the required-attribute block of _validateSSMLTags
RequiredAttrErrors(tagName, fullTag, attributes) ==
  IF tagName \in DOMAIN schema.requiredAttributes /\ ~Includes(fullTag, "/>")
  THEN LET pairs == AttrPairs(attributes, 1)
           foundAttrs == {pairs[k].attrName : k \in 1..Len(pairs)}
           req == schema.requiredAttributes[tagName]
       IN  Flatten([k \in 1..Len(req) |->
                      When(req[k] \notin foundAttrs, ErrMissingAttr(req[k], tagName))])
  ELSE << >>

\* isValid of _validateAttributes for a constraint that is not undefined
IsValidValue(validValues, attrValue) ==
  CASE validValues.kind = "array" ->
         \E k \in 1..Len(validValues.alts) :
            LET validValue == validValues.alts[k]
            IN  \/ ~validValue.regexp /\ validValue.v = attrValue
                \/ validValue.regexp /\ RegexTest(validValue.v, attrValue)
    [] validValues.kind = "regexp" -> RegexTest(validValues.alts[1].v, attrValue)
    [] OTHER -> FALSE

\* _validateAttributes: the errors it pushes, in order
AttributeErrors(tagName, attributes) ==
  IF tagName \notin DOMAIN schema.validAttributeValues THEN << >>
  ELSE LET pairs == AttrPairs(attributes, 1)
       IN  Flatten([k \in 1..Len(pairs) |->
                 LET validValues == LookupConstraint(tagName, pairs[k].attrName)
                 IN  When(validValues.kind # "undefined"
                            /\ ~IsValidValue(validValues, pairs[k].attrValue),
                          ErrInvalidValue(pairs[k].attrValue, pairs[k].attrName, tagName))])

\* a loop body that reports an unsupported tag as an error
TagCheck_UnsupportedIsError(m) ==
  IF StartsWith(m.fullTag, "</") THEN [errors |-> << >>, warnings |-> << >>]
  ELSE IF m.tagName \notin schema.supportedTags
  THEN [errors |-> << "Unsupported tag: <" \o m.tagName \o ">" >>, warnings |-> << >>]
  ELSE [errors |-> RequiredAttrErrors(m.tagName, m.fullTag, m.attributes)
                     \o AttributeErrors(m.tagName, m.attributes),
        warnings |-> << >>]

\* one iteration of the loop of _validateSSMLTags on the match m:
\* the errors and the warnings pushed
TagCheck(m) ==
  IF StartsWith(m.fullTag, "</") THEN [errors |-> << >>, warnings |-> << >>]
  ELSE IF m.tagName \notin schema.supportedTags
  THEN [errors |-> << >>, warnings |-> << WarnUnsupported(m.tagName) >>]
  ELSE [errors |-> RequiredAttrErrors(m.tagName, m.fullTag, m.attributes)
                     \o AttributeErrors(m.tagName, m.attributes),
        warnings |-> << >>]

\* _calculateMetrics
CharacterCount(ssml) == Len(StripTags(ssml, 1))

\* a tag count that leaves out the closing tags
TagCount_NoClosing(ssml) == CountPrefix(ssml, "<", 1) - CountLiteral(ssml, "</", 1)

TagCount(ssml) == CountPrefix(ssml, "<", 1)

\* metrics whose neural projection uses the standard rate
Metrics_OneRate(ssml) ==
  [characterCount |-> CharacterCount(ssml),
   tagCount |-> TagCount(ssml),
   estimatedCost |-> [isObject |-> TRUE,
                      standard |-> CharacterCount(ssml) * 4,
                      neural |-> CharacterCount(ssml) * 4]]

\* estimatedCost is kept in millionths of a dollar: characterCount / 1000000
\* is one rounding of a quotient, and the products by 4.00 and 16.00 are exact
\* in binary floating point, so the stored numbers are the correctly rounded
\* values of characterCount * 4 / 1000000 and characterCount * 16 / 1000000
Metrics(ssml) ==
  [characterCount |-> CharacterCount(ssml),
   tagCount |-> TagCount(ssml),
   estimatedCost |-> [isObject |-> TRUE,
                      standard |-> CharacterCount(ssml) * 4,
                      neural |-> CharacterCount(ssml) * 16]]

\* _getMaxNesting: the scan from position from with the counters so far
RECURSIVE NestingScan(_, _, _, _)
NestingScan(ssml, from, currentDepth, maxDepth) ==
  LET m == TagExec(ssml, from, TRUE)
  IN  IF ~m.found THEN maxDepth
      ELSE IF EndsWith(m.fullTag, "/>")
      THEN NestingScan(ssml, m.last + 1, currentDepth, maxDepth)
      ELSE IF StartsWith(m.fullTag, "</")
      THEN NestingScan(ssml, m.last + 1, currentDepth - 1, maxDepth)
      ELSE NestingScan(ssml, m.last + 1, currentDepth + 1,
                       IF currentDepth + 1 > maxDepth THEN currentDepth + 1 ELSE maxDepth)

MaxNesting(ssml) == NestingScan(ssml, 1, 0, 0)

\* the long-segment loop of _checkCommonIssues
HasLongSegment(ssml) ==
  LET textSegments == SplitBreak(ssml, 1)
  IN  \E k \in 1..Len(textSegments) :
         Len(StripTags(textSegments[k], 1)) > LongSegmentLimit

\* heuristics that warn from the nesting limit on
CommonIssueWarnings_FromLimit(ssml) ==
  When(HasLongSegment(ssml), WarnLong)
  \o When(MaxNesting(ssml) >= NestingLimit, WarnDeep)
  \o When(Includes(ssml, "><"), WarnEmpty)

\* _checkCommonIssues: the warnings it pushes, in order
CommonIssueWarnings(ssml) ==
  When(HasLongSegment(ssml), WarnLong)
  \o When(MaxNesting(ssml) > NestingLimit, WarnDeep)
  \o When(Includes(ssml, "><"), WarnEmpty)

\* ------------------------------------------------------------------------
\* validate() as a function: the report it returns for a string
\* ------------------------------------------------------------------------
\* the errors pushed by the loop and the final check of _validateXMLStructure
RECURSIVE XMLStructureErrors(_, _, _)
XMLStructureErrors(ssml, from, stack) ==
  LET m == TagExec(ssml, from, TRUE)
  IN  IF ~m.found THEN XMLEndErrors(stack)
      ELSE XMLToken(stack, m).errors
             \o XMLStructureErrors(ssml, m.last + 1, XMLToken(stack, m).stack)

\* the matches visited by the loop of _validateSSMLTags
RECURSIVE SchemaTokens(_, _)
SchemaTokens(ssml, from) ==
  LET m == TagExec(ssml, from, FALSE)
  IN  IF ~m.found THEN << >> ELSE << m >> \o SchemaTokens(ssml, m.last + 1)

SSMLTagsErrors(ssml) ==
  LET ts == SchemaTokens(ssml, 1)
  IN  Flatten([k \in 1..Len(ts) |-> TagCheck(ts[k]).errors])

SSMLTagsWarnings(ssml) ==
  LET ts == SchemaTokens(ssml, 1)
  IN  Flatten([k \in 1..Len(ts) |-> TagCheck(ts[k]).warnings])

ValidateErrors(ssml) ==
  BasicStructureErrors(ssml) \o XMLStructureErrors(ssml, 1, << >>) \o SSMLTagsErrors(ssml)

Validate(ssml) ==
  [valid |-> Len(ValidateErrors(ssml)) = 0,
   errors |-> ValidateErrors(ssml),
   warnings |-> SSMLTagsWarnings(ssml) \o CommonIssueWarnings(ssml),
   info |-> Metrics(ssml)]

\* ------------------------------------------------------------------------
\* Text escaping and file handling of the synthesis client
\* ------------------------------------------------------------------------
\* s.replace(/from/g, to) for a one-character pattern
RECURSIVE ReplaceAll(_, _, _)
ReplaceAll(s, from, to) ==
  IF s = "" THEN ""
  ELSE (IF Ch(s, 1) = from THEN to ELSE Ch(s, 1)) \o ReplaceAll(Sub(s, 2, Len(s)), from, to)

\* an escape whose ampersand replacement comes last
escapeText_AmpersandLast(text) ==
  ReplaceAll(ReplaceAll(ReplaceAll(ReplaceAll(ReplaceAll(text,
    "<", "&lt;"), ">", "&gt;"), "\"", "&quot;"), "'", "&apos;"), "&", "&amp;")

\* PollyClient._escapeText / SSMLBuilder._escapeText: five replacements in order
escapeText(text) ==
  ReplaceAll(ReplaceAll(ReplaceAll(ReplaceAll(ReplaceAll(text,
    "&", "&amp;"), "<", "&lt;"), ">", "&gt;"), "\"", "&quot;"), "'", "&apos;")

\* textToSynthesize of synthesizeFromFile for a file with the given
\* (lower-cased) extension and raw content
TextToSynthesize(fileExt, raw) ==
  LET fileContent == Trim(raw)
  IN  IF fileExt = ".ssml" \/ Includes(fileContent, "<speak>")
      THEN fileContent
      ELSE "<speak>" \o escapeText(fileContent) \o "</speak>"

\* ------------------------------------------------------------------------
\* Inputs
\* ------------------------------------------------------------------------
\* how a document under test begins and ends
Prefixes == {"", "<speak>", " <speak>", "<speak"}

Suffixes == {"", "</speak>", "</speak> "}

\* pieces a document body is assembled from
Fragments ==
  {"x", "<b>", "</b>", "<s>", "</s>", "<speak>", "</speak>",
   "<break strength=\"bad\"/>", "<sub>"}

\* bodies with tags that require attributes: none, some or all of them
\* present, in the opening and in the self-closing form
AttributeBodies ==
  {"<sub/><phoneme>", "<phoneme ph=\"x\">y</phoneme>", "<phoneme alphabet=\"ipa\">",
   "<phoneme alphabet=\"ipa\" ph=\"x\">y</phoneme>", "<phoneme/>", "<sub/>",
   "<sub alias=\"y\">x</sub>", "<sub xalias=\"y\">", "<sub alias='y'>",
   "<sub a=\"alias=\"y\">", "</b <sub>",
   "<break constructor=\"x\"/>", "<break time=\"1s\" id=\"7\"/>",
   "<prosody rate=\"+10%\" pitch=\"10%\">x</prosody>", "<p level=\"bad\">x</p>"}

\* bodies with tokens the regular expressions disagree on, and with
\* attributes on an unsupported tag
OddBodies ==
  {"<1>", "<>", "</b/>", "<b></b/>", "</b <s>", "x>", "< b>",
   "<b strength=\"bad\" alias=\"\">x</b>", "<speakers>", "<speak/>"}
     \cup AttributeBodies

RECURSIVE Bodies(_)
Bodies(n) ==
  IF n = 0 THEN {""}
  ELSE Bodies(n - 1) \cup {b \o f : b \in Bodies(n - 1), f \in Fragments}

DocUnterminated == "<speak>unterminated"

DocBadTag == "<speak><badtag>x</badtag></speak>"

DocHello == "<speak>Hello <emphasis level=\"strong\">world</emphasis>!</speak>"

DocBadBreak == "<speak><break strength=\"invalid-value\"/></speak>"

DocLong == "<speak>" \o Repeat("x", 600) \o "</speak>"

DocAllWarnings ==
  "<speak><b>" \o Repeat("x", 501) \o "</b><b/><p><p><p><p><p>y</p></p></p></p></p></speak>"

\* errors of the three checking passes and warnings of every kind
DocEverything ==
  "x<speak><b>" \o Repeat("x", 501)
     \o "</s><sub><break time=\"soon\"/><p><p><p><p><p><s>"

\* a closing root token with white space before its '>'
DocSpacedClose == "<speak>x</speak >"

\* text with an entity reference
DocEntity == "<speak>a &amp; b</speak>"

\* text segments at and around the long-segment limit
DocAtLimit == "<speak>" \o Repeat("x", 500) \o "</speak>"

DocSplitByBreak ==
  "<speak>" \o Repeat("x", 300) \o "<break/>" \o Repeat("x", 300) \o "</speak>"

DocTwoLong ==
  "<speak>" \o Repeat("x", 501) \o "<break time=\"1s\"/>" \o Repeat("x", 501) \o "</speak>"

\* a tag whose name only begins with break
DocBreakfast ==
  "<speak>" \o Repeat("x", 300) \o "<breakfast>" \o Repeat("x", 300) \o "</speak>"

SegmentDocs == {DocAtLimit, DocSplitByBreak, DocTwoLong, DocBreakfast}

\* supported tags nested five and six levels deep, the root included
DocFiveDeep == "<speak><p><s><p><s>y</s></p></s></p></speak>"

DocSixDeep == "<speak><p><s><p><s><p>y</p></s></p></s></p></speak>"

\* six levels of which one is closed before the next opens beside it
DocFiveDeepWide == "<speak><p><s><p><s>y</s><s>z</s></p></s></p></speak>"

\* a closing tag without an opening one in front of six levels
DocStrayDeep == "</s><speak><p><s><p><s><p>y</p></s></p></s></p></speak>"

NestingDocs ==
  {DocFiveDeep, DocSixDeep, DocFiveDeepWide, DocStrayDeep, "<speak><p>x</p/></speak>"}

\* two elements side by side; the closing token of the second runs up to
\* the end of the document
DocTwoRoots == "<speak>x</speak ><p>y</p </speak>"

ExampleDocs ==
  {DocUnterminated, DocBadTag, DocHello, DocBadBreak, DocLong, DocAllWarnings, DocEverything,
   DocSpacedClose, DocEntity, DocTwoRoots} \cup SegmentDocs \cup NestingDocs

Docs ==
  {p \o b \o x : p \in Prefixes, b \in Bodies(MaxBody) \cup OddBodies, x \in Suffixes}
     \cup ExampleDocs

\* arguments of validate(): the documents, and a value that is not a string
Arguments ==
  {[isString |-> TRUE, ssml |-> d] : d \in Docs} \cup {[isString |-> FALSE, ssml |-> ""]}

\* files handed to synthesizeFromFile: extension and raw content
FileExts == {".ssml", ".txt"}

FileContents == {"", " ", "a<b & c", "<speak>x</speak>", "<speak>x", " <b>x</b> "}

\* ------------------------------------------------------------------------
\* State
\* ------------------------------------------------------------------------
VARIABLES
  pc,         \* where validate() stands: idle, the pass about to run, done
  isString,   \* whether the argument of validate() is a string
  ssml,       \* the argument of validate() when it is a string
  result,     \* the report of the call
  lastIndex,  \* position at which the running tokenizer loop resumes
  stack,      \* tag stack of _validateXMLStructure
  outcome,    \* how the last validate() ended: none, returned, threw
  request,    \* the SynthesizeSpeech request in flight, if any
  first,      \* the first call a validator completed: its tables, document and report
  elements,   \* SSMLBuilder.elements
  isInSpeak,  \* SSMLBuilder.isInSpeak
  returned,   \* what the last builder operation returned or threw
  cleared     \* whether the last reset() found elements or an open speak

vars == << pc, isString, ssml, result, lastIndex, stack, outcome, request >>

\* the fields of an SSMLBuilder and the outcome of its last operation
builder == << elements, isInSpeak, returned, cleared >>

allVars == << vars, schema, first, builder >>

\* no call of the validator completed yet
NoCall == [completed |-> FALSE, schema |-> DefaultSchema, isString |-> TRUE, ssml |-> "",
           result |-> << >>]

\* no builder operation was called yet
\* the fields of a builder as the constructor sets them
Constructed == [elements |-> << >>, isInSpeak |-> FALSE]

Nothing == [op |-> "none", arg |-> "", threw |-> FALSE, value |-> ""]

\* const stack = [] at the top of _validateXMLStructure

\* an array that is not created anew: the frames of the last call remain
NewStack_Kept == stack

NewStack == << >>

NoRequest == [sent |-> FALSE, Text |-> ""]

\* the report object created at the top of validate()
NewResult ==
  [valid |-> TRUE, errors |-> << >>, warnings |-> << >>,
   info |-> [characterCount |-> 0, tagCount |-> 0,
             estimatedCost |-> [isObject |-> FALSE, standard |-> 0, neural |-> 0]]]

Init ==
  /\ pc = "idle"
  /\ isString = TRUE
  /\ ssml = ""
  /\ result = NewResult
  /\ lastIndex = 1
  /\ stack = << >>
  /\ outcome = "none"
  /\ request = NoRequest
  /\ schema = DefaultSchema
  /\ first = NoCall
  /\ elements = Constructed.elements
  /\ isInSpeak = Constructed.isInSpeak
  /\ returned = Nothing
  /\ cleared = FALSE

\* ------------------------------------------------------------------------
\* validate(): one action per pass, one per iteration of a tokenizer loop
\* ------------------------------------------------------------------------
\* the passes enclosed by the try block of validate()
TryBlock == {"basic", "xml", "tags", "metrics", "issues"}

\* a validate() that skips the remaining checks once a pass has found an error
NextPass_ShortCircuit(p, r) ==
  IF Len(r.errors) > 0 THEN "final"
  ELSE CASE p = "basic"   -> "xml"
         [] p = "xml"     -> "tags"
         [] p = "tags"    -> "metrics"
         [] p = "metrics" -> "issues"
         [] p = "issues"  -> "final"

\* the pass validate() runs after pass p, the report being r: the passes run
\* one after the other whatever the report holds
NextPass(p, r) ==
  CASE p = "basic"   -> "xml"
    [] p = "xml"     -> "tags"
    [] p = "tags"    -> "metrics"
    [] p = "metrics" -> "issues"
    [] p = "issues"  -> "final"

\* a report whose new errors are put in front of the earlier ones
PushErrors_Prepend(r, es) == [r EXCEPT !.errors = es \o @]

PushErrors(r, es) == [r EXCEPT !.errors = @ \o es]

PushWarnings(r, ws) == [r EXCEPT !.warnings = @ \o ws]

\* validate(ssml) is entered with one of the given arguments and creates its
\* report
CallWith(arguments) ==
  /\ pc = "idle"
  /\ ~request.sent
  /\ \E arg \in arguments :
       /\ ssml' = arg.ssml
       /\ isString' = arg.isString
  /\ pc' = "basic"
  /\ result' = NewResult
  /\ outcome' = "none"
  /\ UNCHANGED << lastIndex, stack, request >>
  /\ UNCHANGED << schema, first, builder >>

Call == CallWith(Arguments)

ValidateBasicStructure ==
  /\ pc = "basic"
  /\ isString
  /\ result' = PushErrors(result, BasicStructureErrors(ssml))
  /\ pc' = NextPass("basic", result')
  /\ lastIndex' = 1
  /\ stack' = NewStack
  /\ UNCHANGED << isString, ssml, outcome, request >>
  /\ UNCHANGED << schema, first, builder >>

\* ssml.trim() on a value that is not a string raises a TypeError
BasicStructureThrows ==
  /\ pc = "basic"
  /\ ~isString
  /\ IF "basic" \in TryBlock
     THEN pc' = "catch" /\ outcome' = outcome
     ELSE pc' = "idle" /\ outcome' = "threw"
  /\ UNCHANGED << isString, ssml, result, lastIndex, stack, request >>
  /\ UNCHANGED << schema, first, builder >>

\* the catch block of validate()
Catch ==
  /\ pc = "catch"
  /\ result' = [PushErrors(result,
                  << "Validation error: Cannot read properties of null (reading 'trim')" >>)
                EXCEPT !.valid = FALSE]
  /\ pc' = "final"
  /\ UNCHANGED << isString, ssml, lastIndex, stack, outcome, request >>
  /\ UNCHANGED << schema, first, builder >>

\* one iteration of the loop of _validateXMLStructure
XMLStep ==
  /\ pc = "xml"
  /\ LET m == TagExec(ssml, lastIndex, TRUE)
     IN  /\ m.found
         /\ stack' = XMLToken(stack, m).stack
         /\ result' = PushErrors(result, XMLToken(stack, m).errors)
         /\ lastIndex' = m.last + 1
  /\ UNCHANGED << pc, isString, ssml, outcome, request >>
  /\ UNCHANGED << schema, first, builder >>

\* the loop of _validateXMLStructure ends; the unclosed-tags check
XMLEnd ==
  /\ pc = "xml"
  /\ ~TagExec(ssml, lastIndex, TRUE).found
  /\ result' = PushErrors(result, XMLEndErrors(stack))
  /\ pc' = NextPass("xml", result')
  /\ lastIndex' = 1
  /\ UNCHANGED << isString, ssml, stack, outcome, request >>
  /\ UNCHANGED << schema, first, builder >>

\* one iteration of the loop of _validateSSMLTags
TagsStep ==
  /\ pc = "tags"
  /\ LET m == TagExec(ssml, lastIndex, FALSE)
     IN  /\ m.found
         /\ result' = PushWarnings(PushErrors(result, TagCheck(m).errors),
                                   TagCheck(m).warnings)
         /\ lastIndex' = m.last + 1
  /\ UNCHANGED << pc, isString, ssml, stack, outcome, request >>
  /\ UNCHANGED << schema, first, builder >>

TagsEnd ==
  /\ pc = "tags"
  /\ ~TagExec(ssml, lastIndex, FALSE).found
  /\ pc' = NextPass("tags", result)
  /\ lastIndex' = 1
  /\ UNCHANGED << isString, ssml, result, stack, outcome, request >>
  /\ UNCHANGED << schema, first, builder >>

CalculateMetrics ==
  /\ pc = "metrics"
  /\ result' = [result EXCEPT !.info = Metrics(ssml)]
  /\ pc' = NextPass("metrics", result')
  /\ UNCHANGED << isString, ssml, lastIndex, stack, outcome, request >>
  /\ UNCHANGED << schema, first, builder >>

CheckCommonIssues ==
  /\ pc = "issues"
  /\ result' = PushWarnings(result, CommonIssueWarnings(ssml))
  /\ pc' = NextPass("issues", result')
  /\ UNCHANGED << isString, ssml, lastIndex, stack, outcome, request >>
  /\ UNCHANGED << schema, first, builder >>

\* a validate() that keeps the flag it accumulated instead of recomputing it
FinalValid_Accumulated(r) == r.valid

\* the value of result.valid set by the last statement of validate()
FinalValid(r) == Len(r.errors) = 0

\* result.valid = result.errors.length === 0; return result
Finish ==
  /\ pc = "final"
  /\ result' = [result EXCEPT !.valid = FinalValid(result)]
  /\ pc' = "done"
  /\ outcome' = "returned"
  /\ UNCHANGED << isString, ssml, lastIndex, stack, request >>
  /\ UNCHANGED << schema, first, builder >>

\* the caller is done with the report
Return ==
  /\ pc = "done"
  /\ ~request.sent
  /\ pc' = "idle"
  /\ isString' = TRUE
  /\ ssml' = ""
  /\ result' = NewResult
  /\ outcome' = "none"
  /\ stack' = << >>
  /\ UNCHANGED << lastIndex, request >>
  /\ UNCHANGED << schema, first, builder >>

\* ------------------------------------------------------------------------
\* Callers that submit documents to the synthesis engine
\* ------------------------------------------------------------------------
\* examples/synthesize.js synthesizeFile: the report is valid, the document
\* is handed to client.synthesize
ScriptSynthesize ==
  /\ pc = "done"
  /\ isString
  /\ ~request.sent
  /\ result.valid
  /\ request' = [sent |-> TRUE, Text |-> ssml]
  /\ UNCHANGED << pc, isString, ssml, result, lastIndex, stack, outcome >>
  /\ UNCHANGED << schema, first, builder >>

\* examples/synthesize.js synthesizeFile: validation failed, process.exit(1)
ScriptExit ==
  /\ pc = "done"
  /\ isString
  /\ ~request.sent
  /\ ~result.valid
  /\ pc' = "idle"
  /\ ssml' = ""
  /\ result' = NewResult
  /\ outcome' = "exited"
  /\ stack' = << >>
  /\ UNCHANGED << isString, lastIndex, request >>
  /\ UNCHANGED << schema, first, builder >>

\* PollyClient.synthesize(ssmlText) called by any other caller
PollySynthesize ==
  /\ pc = "idle"
  /\ ~request.sent
  /\ \E d \in Docs : request' = [sent |-> TRUE, Text |-> d]
  /\ UNCHANGED << pc, isString, ssml, result, lastIndex, stack, outcome >>
  /\ UNCHANGED << schema, first, builder >>

\* PollyClient.synthesizeFromFile on an existing, non-empty file
SynthesizeFromFile ==
  /\ pc = "idle"
  /\ ~request.sent
  /\ \E fileExt \in FileExts, raw \in FileContents :
       /\ Trim(raw) # ""
       /\ request' = [sent |-> TRUE, Text |-> TextToSynthesize(fileExt, raw)]
  /\ UNCHANGED << pc, isString, ssml, result, lastIndex, stack, outcome >>
  /\ UNCHANGED << schema, first, builder >>

\* the engine answers the request
Respond ==
  /\ request.sent
  /\ request' = NoRequest
  /\ UNCHANGED << pc, isString, ssml, result, lastIndex, stack, outcome >>
  /\ UNCHANGED << schema, first, builder >>

Next ==
  \/ Call
  \/ ValidateBasicStructure
  \/ BasicStructureThrows
  \/ Catch
  \/ XMLStep
  \/ XMLEnd
  \/ TagsStep
  \/ TagsEnd
  \/ CalculateMetrics
  \/ CheckCommonIssues
  \/ Finish
  \/ Return
  \/ ScriptSynthesize
  \/ ScriptExit
  \/ PollySynthesize
  \/ SynthesizeFromFile
  \/ Respond

Spec == Init /\ [][Next]_allVars

\* ------------------------------------------------------------------------
\* One validator used for several calls
\* ------------------------------------------------------------------------
\* tables other than those of the constructor: the three tables are public
\* fields of the validator
CustomSchema ==
  [supportedTags |-> {"speak", "b"},
   requiredAttributes |-> ("b" :> << "id" >>),
   validAttributeValues |-> ("b" :> ("strength" :> Arr(Lits(<< "weak" >>))))]

Schemas == {DefaultSchema, CustomSchema}

\* documents of a session; some leave tags on the stack
SessionDocs ==
  {"<speak>x</speak>", "<speak><b>x</b></speak>", "<speak><b>", "</b><s>",
   "<speak><b strength=\"bad\">x</b><sub/></speak>", "<speak><sub>x</speak>"}

SessionArguments ==
  {[isString |-> TRUE, ssml |-> d] : d \in SessionDocs}
     \cup {[isString |-> FALSE, ssml |-> ""]}

\* the owner of the validator assigns other tables to its fields between calls
ReplaceTables ==
  /\ pc = "idle"
  /\ \E t \in Schemas : t # schema /\ schema' = t
  /\ UNCHANGED << vars, first, builder >>

SessionCall == CallWith(SessionArguments)

\* validate() returns to a caller that keeps the validator; the objects of
\* the call are left as they are, and the first call of the validator is
\* remembered
SessionReturn ==
  /\ pc = "done"
  /\ pc' = "idle"
  /\ first' = IF first.completed THEN first
              ELSE [completed |-> TRUE, schema |-> schema, isString |-> isString,
                    ssml |-> ssml, result |-> result]
  /\ UNCHANGED << isString, ssml, result, lastIndex, stack, outcome, request >>
  /\ UNCHANGED << schema, builder >>

SessionNext ==
  \/ ReplaceTables
  \/ SessionCall
  \/ ValidateBasicStructure
  \/ BasicStructureThrows
  \/ Catch
  \/ XMLStep
  \/ XMLEnd
  \/ TagsStep
  \/ TagsEnd
  \/ CalculateMetrics
  \/ CheckCommonIssues
  \/ Finish
  \/ SessionReturn

SessionSpec == Init /\ [][SessionNext]_allVars

\* ------------------------------------------------------------------------
\* SSMLBuilder
\* ------------------------------------------------------------------------
\* the most elements a builder of the model collects
MaxElements == 3

ErrAlreadyInSpeak == "Already inside a <speak> tag"

ErrNoSpeak == "SSML document must start with speak()"

\* a template literal given a Symbol raises this TypeError
ErrSymbol == "Cannot convert a Symbol value to a string"

\* text.replace on a value that is not a string
ErrNotAString == "text.replace is not a function"

\* attribute objects handed to speak(): entries in insertion order; isSymbol
\* marks a value that a template literal cannot convert
SpeakAttributes ==
  {<< >>,
   << [key |-> "xml:lang", value |-> "en-US", isSymbol |-> FALSE] >>,
   << [key |-> "version", value |-> "", isSymbol |-> TRUE] >>}

Texts == {"Hello", "&lt;a<b>&\"'"}

Pauses == {"500ms", "weak"}

Raws == {"<speak>"}

RECURSIVE JoinPairs(_, _)
JoinPairs(attrs, k) ==
  IF k > Len(attrs) THEN ""
  ELSE (IF k > 1 THEN " " ELSE "")
         \o attrs[k].key \o "=\"" \o attrs[k].value \o "\"" \o JoinPairs(attrs, k + 1)

\* _buildAttributes: the string, or the exception of the template literal
buildAttributes(attrs) ==
  IF Len(attrs) = 0 THEN [threw |-> FALSE, value |-> ""]
  ELSE IF \E k \in 1..Len(attrs) : attrs[k].isSymbol
  THEN [threw |-> TRUE, value |-> ErrSymbol]
  ELSE [threw |-> FALSE, value |-> " " \o JoinPairs(attrs, 1)]

\* an element of this.elements with the operation that pushed it
Element(op, str) == [op |-> op, str |-> str]

\* this.elements.join('')
RECURSIVE JoinElements(_, _)
JoinElements(els, k) ==
  IF k > Len(els) THEN "" ELSE els[k].str \o JoinElements(els, k + 1)

\* the last call: its string argument (if it has one), whether it threw, and
\* the message thrown or the string returned
Outcome(op, arg, threw, value) == [op |-> op, arg |-> arg, threw |-> threw, value |-> value]

\* a speak() without the test of isInSpeak
SpeakResult_NoGuard(els, inSpeak, attributes) ==
  LET attrs == buildAttributes(attributes)
  IN  IF attrs.threw
      THEN [elements |-> els, isInSpeak |-> TRUE, threw |-> TRUE, value |-> attrs.value]
      ELSE [elements |-> Append(els, Element("speak", "<speak" \o attrs.value \o ">")),
            isInSpeak |-> TRUE, threw |-> FALSE, value |-> ""]

\* speak(attributes) on a builder with the given fields: the fields after
\* the call and how the call ended
SpeakResult(els, inSpeak, attributes) ==
  IF inSpeak
  THEN [elements |-> els, isInSpeak |-> inSpeak, threw |-> TRUE, value |-> ErrAlreadyInSpeak]
  ELSE LET attrs == buildAttributes(attributes)
       IN  IF attrs.threw
           THEN [elements |-> els, isInSpeak |-> TRUE, threw |-> TRUE, value |-> attrs.value]
           ELSE [elements |-> Append(els, Element("speak", "<speak" \o attrs.value \o ">")),
                 isInSpeak |-> TRUE, threw |-> FALSE, value |-> ""]

\* a build() that joins the elements last to first
BuildResult_Reversed(els, inSpeak) ==
  IF ~inSpeak THEN [threw |-> TRUE, value |-> ErrNoSpeak]
  ELSE [threw |-> FALSE,
        value |-> JoinElements([k \in 1..Len(els) |-> els[Len(els) + 1 - k]], 1)
                    \o "</speak>"]

\* build()
BuildResult(els, inSpeak) ==
  IF ~inSpeak THEN [threw |-> TRUE, value |-> ErrNoSpeak]
  ELSE [threw |-> FALSE, value |-> JoinElements(els, 1) \o "</speak>"]

\* a reset() that empties the elements only
ResetState_ElementsOnly == [elements |-> << >>, isInSpeak |-> isInSpeak]

\* the fields as reset() sets them
ResetState == [elements |-> << >>, isInSpeak |-> FALSE]

Speak ==
  \E attributes \in SpeakAttributes :
     LET r == SpeakResult(elements, isInSpeak, attributes)
     IN  /\ Len(r.elements) <= MaxElements
         /\ elements' = r.elements
         /\ isInSpeak' = r.isInSpeak
         /\ returned' = Outcome("speak", "", r.threw, r.value)
         /\ UNCHANGED << vars, schema, first, cleared >>

\* this.elements.push(str) by the operation op, which then returns the builder
Push(op, arg, str) ==
  /\ elements' = Append(elements, Element(op, str))
  /\ returned' = Outcome(op, arg, FALSE, "")

Text ==
  /\ Len(elements) < MaxElements
  /\ \E text \in Texts : Push("text", text, escapeText(text))
  /\ UNCHANGED isInSpeak
  /\ UNCHANGED << vars, schema, first, cleared >>

\* text() with an argument that is not a string
TextThrows ==
  /\ returned' = Outcome("text", "", TRUE, ErrNotAString)
  /\ UNCHANGED << elements, isInSpeak >>
  /\ UNCHANGED << vars, schema, first, cleared >>

Pause ==
  /\ Len(elements) < MaxElements
  /\ \E time \in Pauses :
        IF time \in {"none", "x-weak", "weak", "medium", "strong", "x-strong"}
        THEN Push("pause", time, "<break strength=\"" \o time \o "\"/>")
        ELSE Push("pause", time, "<break time=\"" \o time \o "\"/>")
  /\ UNCHANGED isInSpeak
  /\ UNCHANGED << vars, schema, first, cleared >>

Emphasis ==
  /\ Len(elements) < MaxElements
  /\ Push("emphasis", "world", "<emphasis level=\"" \o "strong" \o "\">" \o escapeText("world")
                         \o "</emphasis>")
  /\ UNCHANGED isInSpeak
  /\ UNCHANGED << vars, schema, first, cleared >>

Raw ==
  /\ Len(elements) < MaxElements
  /\ \E raw \in Raws : Push("raw", raw, raw)
  /\ UNCHANGED isInSpeak
  /\ UNCHANGED << vars, schema, first, cleared >>

Build ==
  LET r == BuildResult(elements, isInSpeak)
  IN  /\ returned' = Outcome("build", "", r.threw, r.value)
      /\ UNCHANGED << elements, isInSpeak >>
      /\ UNCHANGED << vars, schema, first, cleared >>

Reset ==
  /\ elements' = ResetState.elements
  /\ isInSpeak' = ResetState.isInSpeak
  /\ returned' = Outcome("reset", "", FALSE, "")
  /\ cleared' = (<< elements, isInSpeak >> # << elements', isInSpeak' >>)
  /\ UNCHANGED << vars, schema, first >>

BuilderNext ==
  \/ Speak
  \/ Text
  \/ TextThrows
  \/ Pause
  \/ Emphasis
  \/ Raw
  \/ Build
  \/ Reset

BuilderSpec == Init /\ [][BuilderNext]_allVars

\* ------------------------------------------------------------------------
\* Sanity of the model
\* ------------------------------------------------------------------------
TypeOK ==
  /\ pc \in {"idle", "basic", "catch", "xml", "tags", "metrics", "issues", "final", "done"}
  /\ isString \in BOOLEAN
  /\ result.valid \in BOOLEAN
  /\ lastIndex \in 1..(Len(ssml) + 1)
  /\ outcome \in {"none", "returned", "threw", "exited"}
  /\ request.sent \in BOOLEAN

\* ------------------------------------------------------------------------
\* Properties
\* ------------------------------------------------------------------------
InSeq(x, seq) == \E k \in 1..Len(seq) : seq[k] = x

Last(seq) == seq[Len(seq)]

\* C1: the report validate() returns has valid = TRUE exactly when its list
\* of errors is empty, also when an exception was caught, and whatever the
\* warnings are.
C1_ValidIffNoErrors ==
  pc = "done" => (result.valid <=> Len(result.errors) = 0)

C1_Witness ==
  pc = "done" /\ result.valid /\ Len(result.errors) = 0 /\ Len(result.warnings) > 0

\* C3: every pass runs whatever the earlier passes reported: the report of a
\* document holds the errors of the root-structure, well-formedness and schema
\* passes, the warnings of the schema pass and of the heuristics, and the
\* metrics; '<speak>unterminated' is invalid with the missing-closing-root
\* error and the unclosed-tags error for speak.
C3_AllPassesRun ==
  (pc = "done" /\ isString) =>
     /\ result.errors = BasicStructureErrors(ssml)
                          \o XMLStructureErrors(ssml, 1, << >>)
                          \o SSMLTagsErrors(ssml)
     /\ result.warnings = SSMLTagsWarnings(ssml) \o CommonIssueWarnings(ssml)
     /\ result.info = Metrics(ssml)
     /\ (ssml = DocUnterminated =>
           /\ ~result.valid
           /\ InSeq(ErrMissingClose, result.errors)
           /\ InSeq("Unclosed tags: <speak>", result.errors))

C3_Witness ==
  /\ pc = "done"
  /\ ssml = DocUnterminated
  /\ ~result.valid
  /\ InSeq(ErrMissingClose, result.errors)
  /\ InSeq("Unclosed tags: <speak>", result.errors)

\* C2: validate() never lets an exception escape; a failure raised inside a
\* pass becomes an error of the report; the empty string and every text that
\* holds no tag token yield an invalid report with the missing-opening-root
\* and the missing-closing-root error.
HasNoTags(d) == ~TagExec(d, 1, TRUE).found

C2_TotalAndDegenerate ==
  /\ outcome # "threw"
  /\ (pc = "done" /\ ~isString) => (~result.valid /\ Len(result.errors) > 0)
  /\ (pc = "done" /\ isString /\ HasNoTags(ssml)) =>
        /\ ~result.valid
        /\ InSeq(ErrMissingOpen, result.errors)
        /\ InSeq(ErrMissingClose, result.errors)

\* C4: a document in flight to the synthesis engine is one whose validation
\* report is valid.
C4_OnlyValidSubmitted ==
  request.sent => Validate(request.Text).valid

\* C5: errors and warnings are merged in pass order (root structure, then
\* well-formedness, then schema; unsupported-tag warnings, then long segment,
\* deep nesting, empty tags), and within a pass in the order of the tokens:
\* every step appends to the lists and a tokenizer loop only moves right.
RootErrors == {ErrMissingOpen, ErrMissingClose, ErrUnbalanced, ErrMultiple}

ErrorPass(e) ==
  IF e \in RootErrors THEN 1
  ELSE IF \/ StartsWith(e, "Unexpected closing tag: ")
          \/ StartsWith(e, "Mismatched tags: ")
          \/ StartsWith(e, "Unclosed tags: ") THEN 2
  ELSE IF \/ StartsWith(e, "Missing required attribute ")
          \/ StartsWith(e, "Invalid value ") THEN 3
  ELSE 0

WarningRank(w) ==
  IF StartsWith(w, "Unsupported tag: ") THEN 1
  ELSE IF w = WarnLong THEN 2
  ELSE IF w = WarnDeep THEN 3
  ELSE IF w = WarnEmpty THEN 4
  ELSE 0

IsPrefix(a, b) == Len(a) <= Len(b) /\ SubSeq(b, 1, Len(a)) = a

NonDecreasing(ranks) ==
  \A i \in 1..Len(ranks) : \A j \in (i + 1)..Len(ranks) : ranks[i] <= ranks[j]

C5_PassOrder ==
  (pc = "done" /\ isString) =>
     /\ \A k \in 1..Len(result.errors) : ErrorPass(result.errors[k]) \in 1..3
     /\ \A k \in 1..Len(result.warnings) : WarningRank(result.warnings[k]) \in 1..4
     /\ NonDecreasing([k \in 1..Len(result.errors) |-> ErrorPass(result.errors[k])])
     /\ NonDecreasing([k \in 1..Len(result.warnings) |-> WarningRank(result.warnings[k])])

C5_AppendOnly ==
  /\ pc' \notin {"idle", "basic"} =>
        /\ IsPrefix(result.errors, result'.errors)
        /\ IsPrefix(result.warnings, result'.warnings)
  /\ (pc \in {"xml", "tags"} /\ pc' = pc) => lastIndex' > lastIndex

C5_MergedInPassOrder == [](C5_PassOrder) /\ [][C5_AppendOnly]_vars

C5_Witness ==
  /\ pc = "done"
  /\ \A p \in 1..3 : \E k \in 1..Len(result.errors) : ErrorPass(result.errors[k]) = p
  /\ \A r \in 1..4 : \E k \in 1..Len(result.warnings) : WarningRank(result.warnings[k]) = r

\* the token the loop of the well-formedness pass reads next
NextToken == TagExec(ssml, lastIndex, TRUE)

\* C6: a closing token read while the tag stack is empty adds exactly the
\* 'Unexpected closing tag' error naming the token, leaves the stack empty,
\* and the scan goes on right after the token.
C6_Step ==
  (pc = "xml" /\ NextToken.found /\ StartsWith(NextToken.fullTag, "</") /\ stack = << >>) =>
     /\ result'.errors =
          Append(result.errors, "Unexpected closing tag: " \o NextToken.fullTag)
     /\ stack' = << >>
     /\ pc' = "xml"
     /\ lastIndex' = NextToken.last + 1

C6_UnexpectedClosing == [][C6_Step]_vars

C6_Witness ==
  /\ pc = "xml"
  /\ stack = << >>
  /\ Len(result.errors) > 0
  /\ StartsWith(Last(result.errors), "Unexpected closing tag: </")
  /\ NextToken.found

\* C7: a closing token read while the tag stack is not empty removes exactly
\* the top frame, whether or not the names match, and adds the 'Mismatched
\* tags' error, naming the popped tag as the expected one, exactly when the
\* popped name differs from the name of the token.
C7_Step ==
  (pc = "xml" /\ NextToken.found /\ StartsWith(NextToken.fullTag, "</") /\ stack # << >>) =>
     /\ stack' = SubSeq(stack, 1, Len(stack) - 1)
     /\ result'.errors =
          IF Last(stack) # NextToken.tagName
          THEN Append(result.errors,
                      "Mismatched tags: expected </" \o Last(stack) \o ">, found "
                         \o NextToken.fullTag)
          ELSE result.errors

C7_ClosingPopsTop == [][C7_Step]_vars

C7_Witness ==
  /\ pc = "xml"
  /\ stack # << >>
  /\ Len(result.errors) > 0
  /\ StartsWith(Last(result.errors), "Mismatched tags: expected </")

\* C8: when the scan ends, one 'Unclosed tags' error is added exactly when the
\* tag stack is not empty, and it lists the open tags outermost first.
RECURSIVE OpenTagList(_)
OpenTagList(frames) ==
  IF Len(frames) = 1 THEN "<" \o frames[1] \o ">"
  ELSE OpenTagList(SubSeq(frames, 1, Len(frames) - 1))
         \o ", <" \o frames[Len(frames)] \o ">"

C8_Step ==
  (pc = "xml" /\ pc' # "xml") =>
     result'.errors =
       IF stack # << >>
       THEN Append(result.errors, "Unclosed tags: " \o OpenTagList(stack))
       ELSE result.errors

C8_UnclosedAtEnd == [][C8_Step]_vars

C8_Witness ==
  /\ pc = "tags"
  /\ lastIndex = 1
  /\ Len(result.errors) > 0
  /\ StartsWith(Last(result.errors), "Unclosed tags: <")
  /\ Includes(Last(result.errors), ">, <")

\* the tag tokens of a document, as the well-formedness pass reads them
RECURSIVE TokensFrom(_, _)
TokensFrom(d, from) ==
  LET m == TagExec(d, from, TRUE)
  IN  IF ~m.found THEN << >> ELSE << m >> \o TokensFrom(d, m.last + 1)

IsRootOpening(m) == m.tagName = "speak" /\ IsOpening(m.fullTag)

IsRootClosing(m) == m.tagName = "speak" /\ IsClosing(m.fullTag)

RootOpenings(d) ==
  LET ts == TokensFrom(d, 1) IN Cardinality({k \in 1..Len(ts) : IsRootOpening(ts[k])})

RootClosings(d) ==
  LET ts == TokensFrom(d, 1) IN Cardinality({k \in 1..Len(ts) : IsRootClosing(ts[k])})

StartsWithRootOpening(d) ==
  LET m == TagExec(d, 1, TRUE) IN m.found /\ m.index = 1 /\ IsRootOpening(m)

EndsWithRootClosing(d) ==
  LET ts == TokensFrom(d, 1)
  IN  Len(ts) > 0 /\ Last(ts).last = Len(d) /\ IsRootClosing(Last(ts))

\* C9: the root-structure pass adds, in this order, the missing-opening-root
\* error iff the trimmed document does not start with an opening token of the
\* root element, the missing-closing-root error iff it does not end with a
\* closing token of the root element, the unbalanced-root error iff the
\* numbers of opening and closing root tokens differ, the multiple-roots error
\* iff there is more than one opening root token; it adds no warning.
C9_RootStructure ==
  (pc = "xml" /\ lastIndex = 1) =>
     /\ result.errors =
          When(~StartsWithRootOpening(Trim(ssml)), ErrMissingOpen)
          \o When(~EndsWithRootClosing(Trim(ssml)), ErrMissingClose)
          \o When(RootOpenings(ssml) # RootClosings(ssml), ErrUnbalanced)
          \o When(RootOpenings(ssml) > 1, ErrMultiple)
     /\ result.warnings = << >>

\* the token the loop of the schema pass reads next
NextSchemaToken == TagExec(ssml, lastIndex, FALSE)

\* C10: an opening or self-closing tag whose name is not supported adds one
\* 'Unsupported tag' warning and no error, whatever its attributes;
\* '<speak><badtag>x</badtag></speak>' is valid and warns about badtag.
C10_Step ==
  (pc = "tags" /\ NextSchemaToken.found /\ NextSchemaToken.tagName \notin supportedTags) =>
     /\ result'.warnings =
          Append(result.warnings, "Unsupported tag: <" \o NextSchemaToken.tagName \o ">")
     /\ result'.errors = result.errors

C10_Example ==
  (pc = "done" /\ ssml = DocBadTag) =>
     /\ result.valid
     /\ InSeq("Unsupported tag: <badtag>", result.warnings)

C10_UnsupportedIsWarning == [][C10_Step]_vars /\ [](C10_Example)

C10_Witness ==
  /\ pc = "done"
  /\ ssml = DocBadTag
  /\ result.valid
  /\ InSeq("Unsupported tag: <badtag>", result.warnings)

\* the errors a step appends to the report
NewErrors == SubSeq(result'.errors, Len(result.errors) + 1, Len(result'.errors))

IsMissingAttrError(e) == StartsWith(e, "Missing required attribute '")

\* names of the double-quoted name="value" pairs of an attribute text
AttrNames(attributes) ==
  LET pairs == AttrPairs(attributes, 1) IN {pairs[k].attrName : k \in 1..Len(pairs)}

\* the 'Missing required attribute' errors due for a tag instance: one for each
\* required name that is not among its attributes, in the order of the list
MissingFor(m) ==
  LET req == requiredAttributes[m.tagName]
      Absent(a) == a \notin AttrNames(m.attributes)
      miss == SelectSeq(req, Absent)
  IN  [k \in 1..Len(miss) |->
         "Missing required attribute '" \o miss[k] \o "' for tag <" \o m.tagName \o ">"]

HasRequired(m) == m.tagName \in supportedTags /\ m.tagName \in DOMAIN requiredAttributes

C11_Step ==
  (pc = "tags" /\ NextSchemaToken.found /\ HasRequired(NextSchemaToken)) =>
     SelectSeq(NewErrors, IsMissingAttrError) =
        IF EndsWith(NextSchemaToken.fullTag, "/>") THEN << >> ELSE MissingFor(NextSchemaToken)

C11_Document ==
  (pc = "done" /\ isString) =>
     LET ts == TokensFrom(ssml, 1)
     IN  \A k \in 1..Len(ts) :
            (IsOpening(ts[k].fullTag) /\ HasRequired(ts[k])) =>
               \A j \in 1..Len(MissingFor(ts[k])) : InSeq(MissingFor(ts[k])[j], result.errors)

\* C11: an opening instance of a supported tag with required attributes gets
\* one 'Missing required attribute' error for each required name that is not
\* a double-quoted pair of the instance, in the order of the list, and none for
\* a name that is present; a self-closing instance gets none.
C11_RequiredAttributes == [][C11_Step]_vars /\ [](C11_Document)

C11_Witness ==
  /\ pc = "tags"
  /\ Len(result.errors) >= 2
  /\ Last(result.errors) = "Missing required attribute 'ph' for tag <phoneme>"
  /\ result.errors[Len(result.errors) - 1]
       = "Missing required attribute 'alphabet' for tag <phoneme>"
  /\ Includes(ssml, "<sub/>")

IsInvalidValueError(e) == StartsWith(e, "Invalid value '")

\* whether the schema holds a constraint for the attribute on the tag
HasConstraint(tagName, attrName) ==
  /\ tagName \in DOMAIN validAttributeValues
  /\ attrName \in DOMAIN validAttributeValues[tagName]

\* whether the value equals an enumerated option or fully matches a pattern
Satisfies(tagName, attrName, attrValue) ==
  LET alts == validAttributeValues[tagName][attrName].alts
  IN  \E k \in 1..Len(alts) :
         IF alts[k].regexp THEN RegexTest(alts[k].v, attrValue) ELSE alts[k].v = attrValue

\* the 'Invalid value' errors due for a tag instance, attribute by attribute
InvalidFor(m) ==
  LET pairs == AttrPairs(m.attributes, 1)
      Bad(a) == /\ HasConstraint(m.tagName, a.attrName)
                /\ ~Satisfies(m.tagName, a.attrName, a.attrValue)
      bad == SelectSeq(pairs, Bad)
  IN  [k \in 1..Len(bad) |->
         "Invalid value '" \o bad[k].attrValue \o "' for attribute '" \o bad[k].attrName
            \o "' in tag <" \o m.tagName \o ">"]

C12_Step ==
  (pc = "tags" /\ NextSchemaToken.found /\ NextSchemaToken.tagName \in supportedTags) =>
     SelectSeq(NewErrors, IsInvalidValueError) = InvalidFor(NextSchemaToken)

C12_Example ==
  (pc = "done" /\ ssml = DocBadBreak) =>
     /\ ~result.valid
     /\ InSeq("Invalid value 'invalid-value' for attribute 'strength' in tag <break>",
              result.errors)

\* C12: a double-quoted attribute of a supported tag, opening or self-closing,
\* gets an 'Invalid value' error naming value, attribute and tag exactly when
\* the schema constrains it and the value matches no alternative; an attribute
\* without a constraint gets none; the break with strength="invalid-value" is
\* invalid with that error.
C12_AttributeValues == [][C12_Step]_vars /\ [](C12_Example)

\* whether the tokens from the k-th on close the open tags in nesting order
\* and leave none open
RECURSIVE WellNested(_, _, _)
WellNested(ts, k, open) ==
  IF k > Len(ts) THEN open = << >>
  ELSE IF IsSelfClosing(ts[k].fullTag) THEN WellNested(ts, k + 1, open)
  ELSE IF IsClosing(ts[k].fullTag)
  THEN /\ open # << >>
       /\ Last(open) = ts[k].tagName
       /\ WellNested(ts, k + 1, SubSeq(open, 1, Len(open) - 1))
  ELSE WellNested(ts, k + 1, Append(open, ts[k].tagName))

\* a document made of one root element whose tags are balanced, supported,
\* carry their required attributes and only values their constraints allow
Conformant(d) ==
  LET ts == TokensFrom(d, 1)
  IN  /\ StartsWithRootOpening(Trim(d))
      /\ EndsWithRootClosing(Trim(d))
      /\ RootOpenings(d) = 1
      /\ RootClosings(d) = 1
      /\ WellNested(ts, 1, << >>)
      /\ \A k \in 1..Len(ts) :
            /\ ts[k].tagName \in supportedTags
            /\ (IsOpening(ts[k].fullTag) /\ HasRequired(ts[k])) => MissingFor(ts[k]) = << >>
            /\ ~IsClosing(ts[k].fullTag) => InvalidFor(ts[k]) = << >>

\* C13: a balanced document of supported tags with all required attributes
\* present and every attribute value satisfying its constraint has no errors.
C13_ConformantHasNoErrors ==
  (pc = "done" /\ isString /\ Conformant(ssml)) => Len(result.errors) = 0

\* C14 as stated: the Hello-world example is valid with no errors,
\* 13 characters and 3 tags.
C14_HelloAsStated ==
  (pc = "done" /\ ssml = DocHello) =>
     /\ result.valid
     /\ result.errors = << >>
     /\ result.info.characterCount = 13
     /\ result.info.tagCount = 3

\* C14: the Hello-world example is valid with no errors; its text
\* 'Hello world!' has 12 characters and it has 4 tags (two opening, two
\* closing).
C14_HelloMetrics ==
  (pc = "done" /\ ssml = DocHello) =>
     /\ result.valid
     /\ result.errors = << >>
     /\ result.info.characterCount = 12
     /\ result.info.tagCount = 4

C14_Witness ==
  /\ pc = "done"
  /\ ssml = DocHello
  /\ result.valid
  /\ result.info.characterCount = Len("Hello world!")

\* C15: tagCount is the number of tag tokens of the document, those the
\* tokenizer of the well-formedness pass reads; text between '<' and '>' that
\* is no tag token is not counted.
C15_TagCountIsTokens ==
  (pc = "done" /\ isString) => result.info.tagCount = Len(TokensFrom(ssml, 1))

\* summed lengths of the tag tokens of a document
RECURSIVE TokenChars(_, _)
TokenChars(ts, k) ==
  IF k > Len(ts) THEN 0 ELSE Len(ts[k].fullTag) + TokenChars(ts, k + 1)

\* C16: characterCount is the length of the document minus the summed lengths
\* of its tag tokens; entity references count with their literal length and
\* no text outside a tag token is removed.
C16_CharacterCountIsText ==
  (pc = "done" /\ isString) =>
     result.info.characterCount = Len(ssml) - TokenChars(TokensFrom(ssml, 1), 1)

\* C17: estimatedCost of a document's report is a pair, in millionths of a
\* dollar standard = 4 * characterCount and neural = 16 * characterCount, so
\* neural is four times standard and both are zero exactly when characterCount
\* is zero.
C17_EstimatedCost ==
  (pc = "done" /\ isString) =>
     LET info == result.info
     IN  /\ info.estimatedCost.isObject
         /\ info.estimatedCost.standard = info.characterCount * 4
         /\ info.estimatedCost.neural = info.characterCount * 16
         /\ info.estimatedCost.neural = 4 * info.estimatedCost.standard
         /\ (info.estimatedCost.standard = 0 <=> info.characterCount = 0)
         /\ (info.estimatedCost.neural = 0 <=> info.characterCount = 0)

C17_Witness ==
  /\ pc = "done"
  /\ ssml = DocEntity
  /\ result.info.characterCount = 9
  /\ result.info.estimatedCost.standard = 36
  /\ result.info.estimatedCost.neural = 144

\* number of entries of a list equal to x
Occurrences(x, seq) == Cardinality({k \in 1..Len(seq) : seq[k] = x})

IsBreakToken(m) == m.tagName = "break" /\ IsSelfClosing(m.fullTag)

\* length of the longest stretch of text between self-closing break tokens,
\* the tag tokens inside a stretch not counted: the scan from position from,
\* run being the text length since the last break and best the longest so far
RECURSIVE SegmentScan(_, _, _, _)
SegmentScan(d, from, run, best) ==
  LET m == TagExec(d, from, TRUE)
  IN  IF ~m.found THEN MaxOf({best, run + (Len(d) - from + 1)})
      ELSE IF IsBreakToken(m)
      THEN SegmentScan(d, m.last + 1, 0, MaxOf({best, run + (m.index - from)}))
      ELSE SegmentScan(d, m.last + 1, run + (m.index - from), best)

LongestSegment(d) == SegmentScan(d, 1, 0, 0)

\* C18: the document is split at self-closing break tokens only and the
\* long-segment warning is added once if some segment has more than 500
\* characters of text, and not at all otherwise; the warning leaves the report
\* valid: '<speak>' + 600 characters + '</speak>' is valid and carries it.
C18_LongSegment ==
  (pc = "done" /\ isString) =>
     /\ Occurrences(WarnLong, result.warnings)
          = (IF LongestSegment(ssml) > 500 THEN 1 ELSE 0)
     /\ (ssml = DocLong => result.valid /\ InSeq(WarnLong, result.warnings))

\* the depth reached by replaying the tokens: a token with a trailing '/>' is
\* ignored, a closing one takes one level off, any other adds one
RECURSIVE DepthScan(_, _, _, _)
DepthScan(ts, k, depth, reached) ==
  IF k > Len(ts) THEN reached
  ELSE IF EndsWith(ts[k].fullTag, "/>") THEN DepthScan(ts, k + 1, depth, reached)
  ELSE IF StartsWith(ts[k].fullTag, "</") THEN DepthScan(ts, k + 1, depth - 1, reached)
  ELSE DepthScan(ts, k + 1, depth + 1, MaxOf({reached, depth + 1}))

DepthReached(d) == DepthScan(TokensFrom(d, 1), 1, 0, 0)

\* the number of frames the tag stack holds at most while the tokens are read
RECURSIVE StackScan(_, _, _, _)
StackScan(ts, k, open, most) ==
  IF k > Len(ts) THEN most
  ELSE StackScan(ts, k + 1, XMLToken(open, ts[k]).stack,
                 MaxOf({most, Len(XMLToken(open, ts[k]).stack)}))

NestingLevels(d) == StackScan(TokensFrom(d, 1), 1, << >>, 0)

\* a properly nested document of supported tags
NestedSupported(d) ==
  LET ts == TokensFrom(d, 1)
  IN  /\ WellNested(ts, 1, << >>)
      /\ \A k \in 1..Len(ts) :
            /\ ts[k].tagName \in supportedTags
            /\ ~(StartsWith(ts[k].fullTag, "</") /\ EndsWith(ts[k].fullTag, "/>"))

HasEmptyElement(d) ==
  LET ts == TokensFrom(d, 1)
  IN  \E k \in 1..(Len(ts) - 1) :
         /\ IsOpening(ts[k].fullTag)
         /\ IsClosing(ts[k + 1].fullTag)
         /\ ts[k + 1].index = ts[k].last + 1

\* C20: the 'Empty tags detected' warning is added once exactly when an
\* opening tag is directly followed by a closing tag, and not at all when no
\* opening tag is directly followed by a closing tag.
C20_EmptyTags ==
  (pc = "done" /\ isString) =>
     Occurrences(WarnEmpty, result.warnings) = (IF HasEmptyElement(ssml) THEN 1 ELSE 0)

\* ------------------------------------------------------------------------
\* Calls on one validator (SessionSpec)
\* ------------------------------------------------------------------------
IsWellFormednessError(e) ==
  \/ StartsWith(e, "Unexpected closing tag: ")
  \/ StartsWith(e, "Mismatched tags: expected </")
  \/ StartsWith(e, "Unclosed tags: ")

WellFormednessErrors(es) == SelectSeq(es, IsWellFormednessError)

\* a later call has returned for the document of the validator's first call
SameDocumentAgain ==
  /\ pc = "done"
  /\ first.completed
  /\ first.isString = isString
  /\ first.ssml = ssml

\* C21: the well-formedness pass is independent of the schema: the reports of
\* one document under two schemas (supported tags, required attributes,
\* constraints) hold the same sequence of well-formedness errors.
C21_SchemaIndependent ==
  (SameDocumentAgain /\ isString) =>
     WellFormednessErrors(result.errors) = WellFormednessErrors(first.result.errors)

C21_Witness ==
  /\ SameDocumentAgain
  /\ isString
  /\ first.schema # schema
  /\ result.errors # first.result.errors
  /\ WellFormednessErrors(result.errors) # << >>
  /\ WellFormednessErrors(result.errors) = WellFormednessErrors(first.result.errors)

\* C22: validate keeps no state from one call to the next: every call starts
\* with a newly created report and an empty tag stack, returns the report the
\* first call of the validator returned for the same document under the same
\* tables, and no step of a call changes the three tables.
C22_NoCrossCallState ==
  /\ [](pc = "basic" => result = NewResult)
  /\ []((pc = "xml" /\ lastIndex = 1) => stack = << >>)
  /\ []((SameDocumentAgain /\ first.schema = schema) => result = first.result)
  /\ [][(pc # "idle" \/ pc' # "idle") => schema' = schema]_allVars

C22_Witness ==
  /\ SameDocumentAgain
  /\ first.schema = schema
  /\ ssml = "<speak><b>"
  /\ stack = << "speak", "b" >>
  /\ result = first.result
  /\ result.errors # << >>

\* ------------------------------------------------------------------------
\* SSMLBuilder (BuilderSpec)
\* ------------------------------------------------------------------------
\* a speak() has completed since construction or since the last reset():
\* only a speak() that completes pushes an element, and reset() drops them
SpeakCompleted == \E k \in 1..Len(elements) : elements[k].op = "speak"

\* the concatenation of the strings of the elements in the order of the
\* calls that pushed them
RECURSIVE InCallOrder(_)
InCallOrder(els) ==
  IF Len(els) = 0 THEN "" ELSE InCallOrder(SubSeq(els, 1, Len(els) - 1)) \o Last(els).str

\* C23: build() throws 'SSML document must start with speak()' whenever no
\* speak() has completed since construction or the last reset(), and
\* otherwise returns the elements concatenated in call order followed by one
\* '</speak>'.
C23_Build ==
  returned.op = "build" =>
     IF SpeakCompleted
     THEN ~returned.threw /\ returned.value = InCallOrder(elements) \o "</speak>"
     ELSE returned.threw /\ returned.value = ErrNoSpeak

\* C24: speak() on a builder whose speak() has completed and that was not
\* reset since throws 'Already inside a <speak> tag' and changes neither the
\* elements nor the flag, so the elements hold at most one opening tag pushed
\* by speak().
C24_SecondSpeak ==
  /\ [][(returned'.op = "speak" /\ SpeakCompleted) =>
          /\ returned'.threw
          /\ returned'.value = ErrAlreadyInSpeak
          /\ elements' = elements
          /\ isInSpeak /\ isInSpeak']_allVars
  /\ [](Cardinality({k \in 1..Len(elements) : elements[k].op = "speak"}) <= 1)

C24_Witness ==
  /\ returned.op = "speak"
  /\ returned.threw
  /\ returned.value = ErrAlreadyInSpeak
  /\ SpeakCompleted
  /\ Len(elements) >= 2
  /\ isInSpeak

\* C25: reset() leaves the builder with the fields of a newly constructed
\* one, whatever was called before it, so every operation that follows acts
\* as on a new builder and a later build() holds nothing pushed before the
\* reset.
C25_ResetIsConstruction ==
  /\ [][returned'.op = "reset" =>
          [elements |-> elements', isInSpeak |-> isInSpeak'] = Constructed]_allVars
  /\ []((returned.op = "reset" /\ cleared) =>
          /\ BuildResult(elements, isInSpeak)
               = BuildResult(Constructed.elements, Constructed.isInSpeak)
          /\ \A attributes \in SpeakAttributes :
                SpeakResult(elements, isInSpeak, attributes)
                  = SpeakResult(Constructed.elements, Constructed.isInSpeak, attributes))

C25_Witness ==
  /\ cleared
  /\ returned.op = "build"
  /\ ~returned.threw
  /\ returned.value = "<speak>Hello</speak>"

\* the entity that stands for a character
Entity(c) ==
  CASE c = "&"  -> "&amp;"
    [] c = "<"  -> "&lt;"
    [] c = ">"  -> "&gt;"
    [] c = "\"" -> "&quot;"
    [] c = "'"  -> "&apos;"
    [] OTHER    -> c

RECURSIVE Escaped(_)
Escaped(t) == IF t = "" THEN "" ELSE Entity(Ch(t, 1)) \o Escaped(Sub(t, 2, Len(t)))

\* reading the entities back, left to right
RECURSIVE Unescaped(_)
Unescaped(e) ==
  IF e = "" THEN ""
  ELSE IF StartsWith(e, "&amp;") THEN "&" \o Unescaped(Sub(e, 6, Len(e)))
  ELSE IF StartsWith(e, "&lt;") THEN "<" \o Unescaped(Sub(e, 5, Len(e)))
  ELSE IF StartsWith(e, "&gt;") THEN ">" \o Unescaped(Sub(e, 5, Len(e)))
  ELSE IF StartsWith(e, "&quot;") THEN "\"" \o Unescaped(Sub(e, 7, Len(e)))
  ELSE IF StartsWith(e, "&apos;") THEN "'" \o Unescaped(Sub(e, 7, Len(e)))
  ELSE Ch(e, 1) \o Unescaped(Sub(e, 2, Len(e)))

C26_Step ==
  (returned'.op = "text" /\ ~returned'.threw) =>
     LET e == Last(elements').str
     IN  /\ elements' = Append(elements, Element("text", e))
         /\ e = Escaped(returned'.arg)
         /\ Unescaped(e) = returned'.arg
         /\ ~Includes(e, "<") /\ ~Includes(e, ">")
         /\ ~Includes(e, "\"") /\ ~Includes(e, "'")

\* C26: text(t) appends t with each of & < > " ' replaced by its entity; the
\* ampersand goes first, so the entities of the other four are not escaped
\* again, and the appended element holds no raw '<' or '>'.
C26_TextEscapes ==
  /\ [][C26_Step]_allVars
  /\ [](escapeText("Text with <special> & \"quoted\" characters")
          = "Text with &lt;special&gt; &amp; &quot;quoted&quot; characters")

C26_Witness ==
  /\ returned.op = "text"
  /\ ~returned.threw
  /\ returned.arg = "&lt;a<b>&\"'"
  /\ Last(elements) = Element("text", "&amp;lt;a&lt;b&gt;&amp;&quot;&apos;")

\* C30: a string returned by build() starts with the opening tag pushed by
\* speak() and ends with '</speak>'; build() changes neither the elements
\* nor the flag, so a build() after a build() returns the same string.
C30_BuildShape ==
  /\ []((returned.op = "build" /\ ~returned.threw) =>
          /\ elements # << >>
          /\ elements[1].op = "speak"
          /\ StartsWith(returned.value, elements[1].str)
          /\ EndsWith(returned.value, "</speak>"))
  /\ [][returned'.op = "build" =>
          /\ elements' = elements /\ isInSpeak' = isInSpeak
          /\ returned.op = "build" => returned' = returned]_allVars

\* ------------------------------------------------------------------------
\* The nesting heuristic against the well-formedness pass; the root element
\* ------------------------------------------------------------------------
\* the class _getMaxNesting gives a token
HeuristicClass(fullTag) ==
  IF EndsWith(fullTag, "/>") THEN "self-closing"
  ELSE IF StartsWith(fullTag, "</") THEN "closing"
  ELSE "opening"

\* the class _validateXMLStructure gives a token
StructureClass(fullTag) ==
  IF IsSelfClosing(fullTag) THEN "self-closing"
  ELSE IF IsClosing(fullTag) THEN "closing"
  ELSE "opening"

\* C27: the nesting heuristic replays the tokenizer of the well-formedness
\* pass: it gives every token the class that pass gives it, and the
\* deep-nesting warning is in the report exactly when the tag stack of the
\* well-formedness pass holds more than 5 frames at some point of the scan.
C27_HeuristicReplaysStack ==
  (pc = "done" /\ isString) =>
     LET ts == TokensFrom(ssml, 1)
     IN  /\ \A k \in 1..Len(ts) :
               HeuristicClass(ts[k].fullTag) = StructureClass(ts[k].fullTag)
         /\ InSeq(WarnDeep, result.warnings) <=> NestingLevels(ssml) > NestingLimit

\* C28: the well-formedness pass adds no error exactly when the opening and
\* closing tokens of the document (self-closing ones left out) are properly
\* nested with matching names and none is left open at the end.
C28_NoErrorIffNested ==
  (pc = "done" /\ isString) =>
     (WellFormednessErrors(result.errors) = << >>
        <=> WellNested(TokensFrom(ssml, 1), 1, << >>))

C28_Witness ==
  /\ pc = "done"
  /\ isString
  /\ WellFormednessErrors(result.errors) = << >>
  /\ result.errors # << >>
  /\ Len(TokensFrom(ssml, 1)) >= 4
  /\ WellNested(TokensFrom(ssml, 1), 1, << >>)

\* the tag stack after the first k tokens
RECURSIVE StackAfter(_, _)
StackAfter(ts, k) ==
  IF k = 0 THEN << >> ELSE XMLToken(StackAfter(ts, k - 1), ts[k]).stack

\* C29: a document with a valid report has one root element around
\* everything: its first token is an opening speak token, its last token is
\* the closing speak token that pops that frame, the tag stack is not empty
\* between the two, and no other opening speak token occurs.
C29_ValidHasOneRoot ==
  (pc = "done" /\ isString /\ result.valid) =>
     LET ts == TokensFrom(ssml, 1)
     IN  /\ Len(ts) >= 2
         /\ IsRootOpening(ts[1])
         /\ IsRootClosing(Last(ts))
         /\ StackAfter(ts, Len(ts) - 1) = << "speak" >>
         /\ \A k \in 1..(Len(ts) - 1) : StackAfter(ts, k) # << >>
         /\ \A k \in 2..Len(ts) : ~IsRootOpening(ts[k])

====
